---- MODULE Spec2Model ----
(***************************************************************************)
(* Model of the upload-brokering backend (src/app.py): the extension       *)
(* validator, the presigned-URL issuer and the four request handlers       *)
(* generate_upload_url, list_files, save_file_info and delete_file.        *)
(*                                                                         *)
(* Strings are sequences of symbols.  File names are sequences of          *)
(* one-character strings; a content type is a sequence holding one symbol  *)
(* (the whole MIME type), the empty sequence being the empty string.       *)
(* Python values are records: PyNone is None, Str(s) is the str s.         *)
(***************************************************************************)
EXTENDS Integers, Sequences, FiniteSets, TLC

(* ------------------------------ bounds -------------------------------- *)

MaxRows == 1

MaxConns == 1

MaxStem == 2

(* --------------------------- python values ---------------------------- *)

PyNone == [t |-> "none", v |-> <<>>]

Str(s) == [t |-> "str", v |-> s]

Absent == [t |-> "absent", v |-> <<>>]

\* dict.get(key): a missing key and a JSON null both read as None
DictGet(field) == IF field.t = "str" THEN field ELSE PyNone

\* dict.get(key, default): only a missing key reads as the default
DictGetDefault(field, default) ==
  IF field.t = "absent" THEN default
  ELSE IF field.t = "str" THEN field ELSE PyNone

\* truth value of a python object: None and "" are falsy
Truthy(x) == x.t = "str" /\ x.v # <<>>

(* ------------------------- extension validator ------------------------ *)

UpperChars == <<"A", "B", "C", "D", "E", "F", "G", "H", "I", "J", "K", "L", "M",
                "N", "O", "P", "Q", "R", "S", "T", "U", "V", "W", "X", "Y", "Z">>

LowerChars == <<"a", "b", "c", "d", "e", "f", "g", "h", "i", "j", "k", "l", "m",
                "n", "o", "p", "q", "r", "s", "t", "u", "v", "w", "x", "y", "z">>

LowerChar(c) ==
  IF \E i \in 1..Len(UpperChars) : UpperChars[i] = c
  THEN LowerChars[CHOOSE i \in 1..Len(UpperChars) : UpperChars[i] = c]
  ELSE c

\* str.lower()
lower(s) == [i \in 1..Len(s) |-> LowerChar(s[i])]

\* str.endswith(suffix)
endswith(s, suffix) ==
  /\ Len(suffix) <= Len(s)
  /\ SubSeq(s, Len(s) - Len(suffix) + 1, Len(s)) = suffix

ALLOWED_EXTENSIONS ==
  { <<".", "j", "p", "g">>, <<".", "j", "p", "e", "g">>, <<".", "p", "n", "g">>,
    <<".", "g", "i", "f">>, <<".", "m", "p", "4">>, <<".", "m", "o", "v">>,
    <<".", "a", "v", "i">>, <<".", "w", "e", "b", "m">> }

\* the validator without the lower-casing
allowed_file_case_sensitive(filename) ==
  \E ext \in ALLOWED_EXTENSIONS : endswith(filename, ext)

allowed_file(filename) ==
  \E ext \in ALLOWED_EXTENSIONS : endswith(lower(filename), ext)

(* ------------------------------ inputs -------------------------------- *)

photo_JPG == <<"p", ".", "J", "P", "G">>

notes_txt == <<"x", ".", "t", "x", "t">>

\* keys the bucket may hold and names a request may carry
Names == {photo_JPG, notes_txt}

\* the "filename" member of a request body: missing, null, "" or a name
FilenameFields == {Absent, PyNone, Str(<<>>)} \cup {Str(n) : n \in Names}

image_jpeg == <<"image/jpeg">>

octet_stream == <<"application/octet-stream">>

\* the "contentType" member of a request body
ContentTypeFields == {Absent, PyNone, Str(<<>>), Str(image_jpeg)}

Bodies == [filename : FilenameFields, contentType : ContentTypeFields]

\* DELETE /delete-file reads the filename only
DeleteBodies == [filename : FilenameFields, contentType : {Absent}]

\* where the relational store fails during one request ("ok": nowhere)
DbModes == {"ok", "connect", "cursor", "execute", "commit", "cursor_close"}

\* the relational store as seen by a request that never opens a connection:
\* reachable, unreachable, or reachable and failing its statements
DbStates == {"ok", "connect", "execute"}

(* ------------------------------- state -------------------------------- *)

VARIABLES
  bucket,     \* keys held by the S3 bucket
  rows,       \* committed rows of the uploads table, in insertion order
  openConns,  \* database connections opened and not closed
  op,         \* the handler that served the last request
  req,        \* its request body
  env,        \* what the backends did during it
  resp,       \* its response
  calls,      \* the backend calls it made, in order
  rows0,      \* the uploads table when it started
  prev,       \* for save-file-info: the accepted upload-URL request just before it
  vname,      \* validator input
  vout        \* validator output

vars == <<bucket, rows, openConns, op, req, env, resp, calls, rows0, prev, vname, vout>>

(* ----------------------------- responses ------------------------------ *)

NoUrl == [ok |-> FALSE, method |-> "", Key |-> <<>>, ExpiresIn |-> 0, ContentType |-> PyNone]

NoBody == [error |-> "", message |-> "", url |-> NoUrl, filename |-> PyNone, files |-> <<>>]

Response(status, body) == [status |-> status, body |-> body]

Call(api, key, ok) == [api |-> api, key |-> key, ok |-> ok]

(* ----------------------------- URL issuer ----------------------------- *)

\* s3.generate_presigned_url(ClientMethod, Params, ExpiresIn); ContentType is
\* PyNone when Params carries no ContentType
generate_presigned_url(method, key, content_type, expires_in) ==
  [ok |-> TRUE, method |-> method, Key |-> key, ExpiresIn |-> expires_in,
   ContentType |-> content_type]

\* signed: whether the signing call succeeds (FALSE: it raises ClientError)
create_presigned_url(key, method, expires_in, content_type, signed) ==
  IF signed
  THEN generate_presigned_url(method, key,
         IF Truthy(content_type) THEN content_type ELSE PyNone, expires_in)
  ELSE NoUrl

(* ------------------------------ handlers ------------------------------ *)
(* A handler maps the request body, the behaviour of the backends during  *)
(* the request (e) and the state of the backends (st) to the response,    *)
(* the backend calls made and the state of the backends afterwards.       *)
(* Request bodies are JSON objects.  A failing S3 call raises ClientError, *)
(* the exception the handlers catch; a failing database step raises       *)
(* mysql.connector.Error.  Listing entries keep name and url; size and    *)
(* lastModified are copied from the listing unchanged.                    *)

State(b, r, c) == [bucket |-> b, rows |-> r, openConns |-> c]

Outcome(r, cs, st) == [resp |-> r, calls |-> cs, st |-> st]

Row(filename, content_type) == [filename |-> filename, content_type |-> content_type]

\* generate_upload_url with its extension check and a metadata insert
\* switched: record is "no", "best_effort" or "fatal"
generate_variant(data, e, st, check_ext, record) ==
  LET filename == DictGet(data.filename)
      content_type == DictGetDefault(data.contentType, Str(octet_stream))
  IN  IF ~Truthy(filename)
      THEN Outcome(Response(400, [NoBody EXCEPT !.error = "Filename is required"]), <<>>, st)
      ELSE IF check_ext /\ ~allowed_file(filename.v)
      THEN Outcome(Response(400, [NoBody EXCEPT !.error = "File type not allowed"]), <<>>, st)
      ELSE LET url == create_presigned_url(filename.v, "put_object", 300, content_type, e.s3)
               c1 == <<Call("s3.generate_presigned_url", filename.v, e.s3)>>
               c2 == Append(c1, Call("mysql.connect", filename.v, e.db = "ok"))
               ok == Response(200, [NoBody EXCEPT !.url = url, !.filename = filename])
           IN  IF ~url.ok
               THEN Outcome(Response(500, [NoBody EXCEPT !.error = "Failed to generate upload URL"]), c1, st)
               ELSE IF record = "no" THEN Outcome(ok, c1, st)
               ELSE IF e.db = "ok"
               THEN Outcome(ok, c2, [st EXCEPT !.rows = Append(@, Row(filename.v, content_type))])
               ELSE IF record = "fatal"
               THEN Outcome(Response(500, [NoBody EXCEPT !.error = e.db]), c2, st)
               ELSE Outcome(ok, c2, st)

\* the handler without the extension check
generate_upload_url_unchecked(data, e, st) == generate_variant(data, e, st, FALSE, "no")

\* the handler inserting a row and failing when the store fails
generate_upload_url_db_fatal(data, e, st) == generate_variant(data, e, st, TRUE, "fatal")

\* the handler inserting a row, best effort
generate_upload_url_recording(data, e, st) == generate_variant(data, e, st, TRUE, "best_effort")

\* POST /generate-upload-url; e.s3: whether signing succeeds
generate_upload_url(data, e, st) ==
  LET filename == DictGet(data.filename)
      content_type == DictGetDefault(data.contentType, Str(octet_stream))
  IN  IF ~Truthy(filename)
      THEN Outcome(Response(400, [NoBody EXCEPT !.error = "Filename is required"]), <<>>, st)
      ELSE IF ~allowed_file(filename.v)
      THEN Outcome(Response(400, [NoBody EXCEPT !.error = "File type not allowed"]), <<>>, st)
      ELSE LET url == create_presigned_url(filename.v, "put_object", 300, content_type, e.s3)
               cs == <<Call("s3.generate_presigned_url", filename.v, e.s3)>>
           IN  IF ~url.ok
               THEN Outcome(Response(500, [NoBody EXCEPT !.error = "Failed to generate upload URL"]), cs, st)
               ELSE Outcome(Response(200, [NoBody EXCEPT !.url = url, !.filename = filename]), cs, st)

\* bucket keys in the order list_objects_v2 returns them
KeyOrder == <<notes_txt, photo_JPG>>

Contents(b) == SelectSeq(KeyOrder, LAMBDA k : k \in b)

RECURSIVE file_list(_, _)
\* the list comprehension of list_files: for each key the condition signs
\* once (default expiry) and, when that gave a URL, the entry signs again;
\* signs[k][i] is whether the i-th signing call for key k succeeds
file_list(contents, signs) ==
  IF contents = <<>>
  THEN [files |-> <<>>, calls |-> <<>>]
  ELSE LET k == Head(contents)
           rest == file_list(Tail(contents), signs)
           cond == create_presigned_url(k, "get_object", 300, PyNone, signs[k][1])
       IN  IF cond.ok
           THEN LET url == create_presigned_url(k, "get_object", 7 * 24 * 3600, PyNone, signs[k][2])
                IN  [files |-> <<[name |-> k, url |-> url]>> \o rest.files,
                     calls |-> <<Call("s3.generate_presigned_url", k, TRUE),
                                 Call("s3.generate_presigned_url", k, signs[k][2])>> \o rest.calls]
           ELSE [files |-> rest.files,
                 calls |-> <<Call("s3.generate_presigned_url", k, FALSE)>> \o rest.calls]

\* GET /files; e.s3: whether list_objects_v2 succeeds
list_files(e, st) ==
  IF ~e.s3
  THEN Outcome(Response(500, [NoBody EXCEPT !.error = "AWS Error"]),
               <<Call("s3.list_objects_v2", <<>>, FALSE)>>, st)
  ELSE LET fl == file_list(Contents(st.bucket), e.signs)
       IN  Outcome(Response(200, [NoBody EXCEPT !.files = fl.files]),
                   <<Call("s3.list_objects_v2", <<>>, TRUE)>> \o fl.calls, st)

\* get_db_connection(): None when connect raises
get_db_connection(e) == e.db # "connect"

\* save_file_info answering a database exception with status 500
save_file_info_raising(data, e, st) ==
  LET filename == DictGet(data.filename)
      content_type == DictGetDefault(data.contentType, Str(octet_stream))
      opened == [st EXCEPT !.openConns = @ + 1]
      inserted == [opened EXCEPT !.rows = Append(@, Row(filename.v, content_type))]
      cs == <<Call("mysql.connect", filename.v, e.db # "connect")>>
  IN  IF ~Truthy(filename)
      THEN Outcome(Response(400, [NoBody EXCEPT !.error = "Filename is required"]), <<>>, st)
      ELSE IF e.db = "connect"
      THEN Outcome(Response(200, [NoBody EXCEPT !.message = "File uploaded (MySQL not configured)"]),
                   cs, st)
      ELSE IF e.db \in {"cursor", "execute", "commit"}
      THEN Outcome(Response(500, [NoBody EXCEPT !.error = e.db]), cs, opened)
      ELSE IF e.db = "cursor_close"
      THEN Outcome(Response(500, [NoBody EXCEPT !.error = e.db]), cs, inserted)
      ELSE Outcome(Response(200, [NoBody EXCEPT !.message = "info saved successfully",
                                                !.filename = filename]),
                   cs, [inserted EXCEPT !.openConns = @ - 1])

\* save_file_info reading contentType without its default
save_file_info_no_default(data, e, st) ==
  LET filename == DictGet(data.filename)
      content_type == DictGet(data.contentType)
      opened == [st EXCEPT !.openConns = @ + 1]
      inserted == [opened EXCEPT !.rows = Append(@, Row(filename.v, content_type))]
      cs == <<Call("mysql.connect", filename.v, e.db # "connect")>>
      error == Response(200, [NoBody EXCEPT !.message = "File uploaded (MySQL error)",
                                            !.error = e.db])
  IN  IF ~Truthy(filename)
      THEN Outcome(Response(400, [NoBody EXCEPT !.error = "Filename is required"]), <<>>, st)
      ELSE IF e.db = "connect"
      THEN Outcome(Response(200, [NoBody EXCEPT !.message = "File uploaded (MySQL not configured)"]),
                   cs, st)
      ELSE IF e.db \in {"cursor", "execute", "commit"} THEN Outcome(error, cs, opened)
      ELSE IF e.db = "cursor_close" THEN Outcome(error, cs, inserted)
      ELSE Outcome(Response(200, [NoBody EXCEPT !.message = "info saved successfully",
                                                !.filename = filename]),
                   cs, [inserted EXCEPT !.openConns = @ - 1])

\* POST /save-file-info; e.db: the database step that raises, if any
save_file_info(data, e, st) ==
  LET filename == DictGet(data.filename)
      content_type == DictGetDefault(data.contentType, Str(octet_stream))
      Db(api, ok) == Call(api, filename.v, ok)
      error == Response(200, [NoBody EXCEPT !.message = "File uploaded (MySQL error)",
                                            !.error = e.db])
      opened == [st EXCEPT !.openConns = @ + 1]
      inserted == [opened EXCEPT !.rows = Append(@, Row(filename.v, content_type))]
      c1 == <<Db("mysql.connect", get_db_connection(e))>>
      c2 == Append(c1, Db("conn.cursor", e.db # "cursor"))
      c3 == Append(c2, Db("cursor.execute", e.db # "execute"))
      c4 == Append(c3, Db("conn.commit", e.db # "commit"))
      c5 == Append(c4, Db("cursor.close", e.db # "cursor_close"))
      c6 == Append(c5, Db("conn.close", TRUE))
  IN  IF ~Truthy(filename)
      THEN Outcome(Response(400, [NoBody EXCEPT !.error = "Filename is required"]), <<>>, st)
      ELSE IF ~get_db_connection(e)
      THEN Outcome(Response(200, [NoBody EXCEPT !.message = "File uploaded (MySQL not configured)"]),
                   c1, st)
      ELSE IF e.db = "cursor" THEN Outcome(error, c2, opened)
      ELSE IF e.db = "execute" THEN Outcome(error, c3, opened)
      ELSE IF e.db = "commit" THEN Outcome(error, c4, opened)
      ELSE IF e.db = "cursor_close" THEN Outcome(error, c5, inserted)
      ELSE Outcome(Response(200, [NoBody EXCEPT !.message = "info saved successfully",
                                                !.filename = filename]),
                   c6, [inserted EXCEPT !.openConns = @ - 1])

\* DELETE /delete-file; e.s3: whether delete_object succeeds
delete_file(data, e, st) ==
  LET filename == DictGet(data.filename)
  IN  IF ~Truthy(filename)
      THEN Outcome(Response(400, [NoBody EXCEPT !.error = "Filename is required"]), <<>>, st)
      ELSE IF e.s3
      THEN Outcome(Response(200, [NoBody EXCEPT !.message = "deleted successfully",
                                                !.filename = filename]),
                   <<Call("s3.delete_object", filename.v, TRUE)>>,
                   [st EXCEPT !.bucket = @ \ {filename.v}])
      ELSE Outcome(Response(500, [NoBody EXCEPT !.error = "AWS Error"]),
                   <<Call("s3.delete_object", filename.v, FALSE)>>, st)

(* --------------------------- state machine ---------------------------- *)

NoBodyReq == [filename |-> Absent, contentType |-> Absent]

NoSigns == <<>>

Env(db, s3, signs) == [db |-> db, s3 |-> s3, signs |-> signs]

NoPrev == [filename |-> PyNone, rows0 |-> <<>>]

\* outcomes of the successive signing calls made for one key
SignPatterns == {<<FALSE, FALSE>>, <<TRUE, FALSE>>, <<TRUE, TRUE>>}

Init ==
  /\ bucket = {}
  /\ rows = <<>>
  /\ openConns = 0
  /\ op = "none"
  /\ req = NoBodyReq
  /\ env = Env("ok", TRUE, NoSigns)
  /\ resp = Response(0, NoBody)
  /\ calls = <<>>
  /\ rows0 = <<>>
  /\ prev = NoPrev
  /\ vname = <<>>
  /\ vout = "unset"

\* one request served from start to response
Serve(name, data, e, out) ==
  /\ op' = name
  /\ req' = data
  /\ env' = e
  /\ resp' = out.resp
  /\ calls' = out.calls
  /\ rows0' = rows
  /\ bucket' = out.st.bucket
  /\ rows' = out.st.rows
  /\ openConns' = out.st.openConns
  /\ prev' = IF name = "save" /\ op = "generate" /\ resp.status = 200
             THEN [filename |-> resp.body.filename, rows0 |-> rows0]
             ELSE NoPrev
  /\ UNCHANGED <<vname, vout>>

Here == State(bucket, rows, openConns)

\* a backend that is never called has no outcome to choose
Idle(out, chosen) == out.calls = <<>> => chosen

GenerateUploadURL ==
  \E data \in Bodies, db \in DbStates, s3 \in BOOLEAN :
    \E out \in {generate_upload_url(data, Env(db, s3, NoSigns), Here)} :
      Idle(out, s3) /\ Serve("generate", data, Env(db, s3, NoSigns), out)

ListFiles ==
  \E db \in DbStates, s3 \in BOOLEAN, signs \in [bucket -> SignPatterns] :
    \E e \in {Env(db, s3, IF s3 THEN signs ELSE NoSigns)} :
      \E out \in {list_files(e, Here)} : Serve("list", NoBodyReq, e, out)

\* the two guards bound the exploration: the table and the number of
\* connections left open only grow
SaveFileInfo ==
  /\ Len(rows) < MaxRows
  /\ openConns < MaxConns
  /\ \E data \in Bodies, db \in DbModes :
       \E out \in {save_file_info(data, Env(db, TRUE, NoSigns), Here)} :
         Idle(out, db = "ok") /\ Serve("save", data, Env(db, TRUE, NoSigns), out)

DeleteFile ==
  \E data \in DeleteBodies, db \in DbStates, s3 \in BOOLEAN :
    \E out \in {delete_file(data, Env(db, s3, NoSigns), Here)} :
      Idle(out, s3) /\ Serve("delete", data, Env(db, s3, NoSigns), out)

Next ==
  \/ GenerateUploadURL
  \/ ListFiles
  \/ SaveFileInfo
  \/ DeleteFile

Spec == Init /\ [][Next]_vars

(* The bucket is filled by clients through the issued URLs, out of the     *)
(* service's sight: the storage-facing handlers over any bucket content.   *)

InitBucket ==
  /\ bucket \in SUBSET Names
  /\ rows = <<>>
  /\ openConns = 0
  /\ op = "none"
  /\ req = NoBodyReq
  /\ env = Env("ok", TRUE, NoSigns)
  /\ resp = Response(0, NoBody)
  /\ calls = <<>>
  /\ rows0 = <<>>
  /\ prev = NoPrev
  /\ vname = <<>>
  /\ vout = "unset"

NextBucket ==
  \/ GenerateUploadURL
  \/ ListFiles
  \/ DeleteFile

SpecBucket == InitBucket /\ [][NextBucket]_vars

(* The extension validator alone, over file names built from a stem, an   *)
(* extension or a near miss in any letter case, and a trailing part.      *)

UpperOf(c) ==
  IF \E i \in 1..Len(LowerChars) : LowerChars[i] = c
  THEN UpperChars[CHOOSE i \in 1..Len(LowerChars) : LowerChars[i] = c]
  ELSE c

Cased(s, ups) == [i \in 1..Len(s) |-> IF i \in ups THEN UpperOf(s[i]) ELSE s[i]]

StemChars == {"a", ".", "G"}

Stems == UNION {[1..n -> StemChars] : n \in 0..MaxStem}

NearMisses ==
  { <<>>, <<".", "t", "x", "t">>, <<".", "j", "p">>, <<"j", "p", "g">>,
    <<".", "m", "p", "3">>, <<".", "p", "d", "f">> }

Tails == {<<>>, <<"x">>, <<".">>, <<"g">>}

TestNames ==
  { s \o Cased(x, ups) \o t :
      s \in Stems, x \in ALLOWED_EXTENSIONS \cup NearMisses,
      ups \in SUBSET (1..5), t \in Tails }

InitValidator ==
  /\ bucket = {}
  /\ rows = <<>>
  /\ openConns = 0
  /\ op = "none"
  /\ req = NoBodyReq
  /\ env = Env("ok", TRUE, NoSigns)
  /\ resp = Response(0, NoBody)
  /\ calls = <<>>
  /\ rows0 = <<>>
  /\ prev = NoPrev
  /\ vname \in TestNames
  /\ vout = "unset"

Validate ==
  /\ vout = "unset"
  /\ vout' = IF allowed_file(vname) THEN "true" ELSE "false"
  /\ UNCHANGED <<bucket, rows, openConns, op, req, env, resp, calls, rows0, prev, vname>>

NextValidator == Validate

SpecValidator == InitValidator /\ [][NextValidator]_vars

(* ------------------------------- claims ------------------------------- *)

Missing(field) == field \in {Absent, PyNone, Str(<<>>)}

Named(field) == field.t = "str" /\ field.v # <<>>

Api(name) == {i \in 1..Len(calls) : calls[i].api = name}

DbApis == {"mysql.connect", "conn.cursor", "cursor.execute", "conn.commit", "cursor.close", "conn.close"}

DbCalls == {i \in 1..Len(calls) : calls[i].api \in DbApis}

\* C1: a generate-upload-url request whose filename is missing, empty or of a
\* rejected extension, and a save-file-info or delete-file request whose
\* filename is missing or empty, is answered 400 with no backend call made
\* and the table and the bucket left as they were.
C1_ValidationBeforeBackend ==
  (\/ op \in {"generate", "save", "delete"} /\ Missing(req.filename)
   \/ op = "generate" /\ Named(req.filename)
        /\ ~(\E ext \in ALLOWED_EXTENSIONS : endswith(lower(req.filename.v), ext)))
  => resp.status = 400 /\ calls = <<>> /\ rows = rows0

C1_Witness ==
  /\ op = "generate"
  /\ req.filename = Str(notes_txt)
  /\ resp.status = 400
  /\ calls = <<>>

\* C2: while the relational store is unreachable or failing, an upload-URL
\* request with a valid filename whose signing succeeds, a listing whose
\* bucket listing succeeds and a delete whose storage call succeeds are
\* answered 200 with their payload.
C2_StorageIgnoresStore ==
  env.db # "ok" =>
    /\ (op = "generate" /\ Named(req.filename) /\ allowed_file(req.filename.v) /\ env.s3)
         => /\ resp.status = 200
            /\ resp.body.url.ok
            /\ resp.body.filename = req.filename
    /\ (op = "list" /\ env.s3)
         => /\ resp.status = 200
            /\ \A i \in 1..Len(resp.body.files) : resp.body.files[i].name \in bucket
    /\ (op = "delete" /\ Named(req.filename) /\ env.s3)
         => /\ resp.status = 200
            /\ resp.body.filename = req.filename
            /\ req.filename.v \notin bucket

C2_Witness ==
  /\ op = "generate"
  /\ env.db = "connect"
  /\ resp.status = 200
  /\ resp.body.url.ok

\* C3 (as claimed): a listing whose bucket listing succeeds is answered 200,
\* every returned entry carries an issued read URL, and no key for which a
\* read-URL signing call failed is returned.
C3_ListDropsUnsigned ==
  (op = "list" /\ env.s3) =>
    /\ resp.status = 200
    /\ \A i \in 1..Len(resp.body.files) : resp.body.files[i].url.ok
    /\ \A j \in 1..Len(calls) :
         (calls[j].api = "s3.generate_presigned_url" /\ ~calls[j].ok)
         => \A i \in 1..Len(resp.body.files) : resp.body.files[i].name # calls[j].key

\* C4 (as claimed): an upload-URL request answered 200 has called the
\* metadata recorder, and with the store available has added one row
\* holding its filename and content type.
C4_GenerateRecords ==
  (op = "generate" /\ resp.status = 200) =>
    /\ DbCalls # {}
    /\ env.db = "ok" =>
         rows = Append(rows0, Row(req.filename.v,
                                  DictGetDefault(req.contentType, Str(octet_stream))))

\* C4 (amended): an upload-URL request makes no database call and leaves the
\* uploads table as it was, and the store's condition never shows in the
\* response: valid filename and successful signing give 200 {url, filename}.
C4_GenerateNeverRecords ==
  op = "generate" =>
    /\ DbCalls = {}
    /\ rows = rows0
    /\ (Named(req.filename) /\ allowed_file(req.filename.v) /\ env.s3)
         => /\ resp.status = 200
            /\ resp.body.url.ok
            /\ resp.body.filename = req.filename
            /\ resp.body.error = ""

C4_Witness ==
  /\ op = "generate"
  /\ resp.status = 200
  /\ env.db = "ok"
  /\ Len(rows) = 1
  /\ rows = rows0

StoreFailures == {"connect", "cursor", "execute", "commit"}

\* C5: a save-file-info request with a non-empty filename is answered 200
\* whatever the store does; when the connection, the cursor, the insert or
\* the commit fails the message says the metadata was not stored and no row
\* was added; when nothing fails the row is added.
C5_SaveNeverFails ==
  (op = "save" /\ Named(req.filename)) =>
    /\ resp.status = 200
    /\ env.db \in StoreFailures =>
         /\ resp.body.message \in {"File uploaded (MySQL not configured)",
                                   "File uploaded (MySQL error)"}
         /\ rows = rows0
    /\ env.db = "ok" =>
         /\ resp.body.message = "info saved successfully"
         /\ Len(rows) = Len(rows0) + 1

C5_Witness ==
  /\ op = "save"
  /\ Named(req.filename)
  /\ env.db = "commit"
  /\ resp.status = 200
  /\ resp.body.message = "File uploaded (MySQL error)"
  /\ rows = rows0

Usable(field) == field.t = "str" /\ field.v # <<>>

\* C6 (as claimed): an upload-URL request answered 200 returns a put_object
\* URL for the request's filename, expiring in 300 seconds, constrained to
\* the request's content type, or to application/octet-stream when the
\* request's contentType is absent, null or empty.
C6_WriteUrlConstrained ==
  (op = "generate" /\ resp.status = 200) =>
    /\ resp.body.url.method = "put_object"
    /\ resp.body.url.Key = req.filename.v
    /\ resp.body.url.ExpiresIn = 300
    /\ resp.body.url.ContentType =
         IF Usable(req.contentType) THEN req.contentType ELSE Str(octet_stream)

ClaimedExtensions ==
  { <<".", "j", "p", "g">>, <<".", "j", "p", "e", "g">>, <<".", "p", "n", "g">>,
    <<".", "g", "i", "f">>, <<".", "m", "p", "4">>, <<".", "m", "o", "v">>,
    <<".", "a", "v", "i">>, <<".", "w", "e", "b", "m">> }

EndsWithClaimed(name) ==
  \E ext \in ClaimedExtensions : \E pre \in 0..Len(name) :
    /\ Len(name) = pre + Len(ext)
    /\ \A i \in 1..Len(ext) : LowerChar(name[pre + i]) = ext[i]

\* C8: the validator answers true exactly for the names that, lower-cased,
\* end with .jpg, .jpeg, .png, .gif, .mp4, .mov, .avi or .webm; the empty
\* name and a name without a dot are answered false.
C8_AllowedExactly ==
  vout # "unset" =>
    /\ (vout = "true") <=> EndsWithClaimed(vname)
    /\ vname = <<>> => vout = "false"
    /\ (\A i \in 1..Len(vname) : vname[i] # ".") => vout = "false"

C8_Witness ==
  /\ vname = <<"a", ".", "J", "p", "G">>
  /\ vout = "true"

\* C9 (as claimed): no database connection is left open once a request has
\* been answered.
C9_ConnectionsReleased == openConns = 0

\* C10 (as claimed): a listing makes one list_objects_v2 call and, when that
\* succeeds, one signing call per key of the bucket; an upload-URL request
\* that passes validation makes one signing call; a delete request with a
\* filename makes one delete_object call.
C10_EachCallOnce ==
  /\ op = "list" =>
       /\ Cardinality(Api("s3.list_objects_v2")) = 1
       /\ env.s3 => \A k \in bucket :
            Cardinality({i \in Api("s3.generate_presigned_url") : calls[i].key = k}) = 1
  /\ (op = "generate" /\ Named(req.filename) /\ allowed_file(req.filename.v))
       => Cardinality(Api("s3.generate_presigned_url")) = 1
  /\ (op = "delete" /\ Named(req.filename))
       => Cardinality(Api("s3.delete_object")) = 1

====
